---- MODULE Spec2Model ----
(***************************************************************************)
(* Model of app/ui/scripts/main.js of Hikari-OCR: the filename month       *)
(* detector (detectMonthFromFilename) and the upload / execute / reset     *)
(* event handlers of the page.                                             *)
(*                                                                         *)
(* A filename is a sequence of UTF-16 code units (naturals), so that the   *)
(* regular expressions, the full-width digit conversion, parseInt and      *)
(* toLowerCase are computed as the code computes them.                     *)
(***************************************************************************)
EXTENDS Integers, Sequences, FiniteSets, TLC

\* ------------------------------------------------------------------------
\* Values of JavaScript that are not numbers
\* ------------------------------------------------------------------------
\* null, as returned by detectMonthFromFilename (kept apart from every number
\* the function can compute: a two-digit numeral minus one is at least -1)
NULL == -1000
\* NaN, as returned by parseInt on a string without leading digits
NaN == -2000

\* ------------------------------------------------------------------------
\* Code units
\* ------------------------------------------------------------------------
\* '月' (U+6708)
TSUKI == 26376
\* '０' (U+FF10), the first full-width digit
FW0 == 65296
\* 0xFEE0, the distance between a full-width digit and its ASCII digit
FWOFFSET == 65248
\* '0'
ASCII0 == 48
\* '_', '-', '.', ' '
USCORE == 95
HYPHEN == 45
DOT == 46
SPACE == 32

\* [0-9]
IsAsciiDigit(c) == c >= ASCII0 /\ c <= ASCII0 + 9
\* [０-９]
IsFullDigit(c) == c >= FW0 /\ c <= FW0 + 9
\* [0-9０-９]
IsDigitClass(c) == IsAsciiDigit(c) \/ IsFullDigit(c)
\* \s of a JavaScript regular expression
IsSpace(c) ==
    c \in {9, 10, 11, 12, 13, 32, 160, 5760, 8232, 8233, 8239, 8287, 12288, 65279}
    \/ (c >= 8192 /\ c <= 8202)

\* monthStr.replace(/[０-９]/g, s => String.fromCharCode(s.charCodeAt(0) - 0xFEE0))
ToHalfWidth(s) ==
    [i \in 1..Len(s) |-> IF IsFullDigit(s[i]) THEN s[i] - FWOFFSET ELSE s[i]]

\* the length of the longest prefix of s[i..] made of ASCII digits
RECURSIVE DigitRun(_, _)
DigitRun(s, i) ==
    IF i <= Len(s) /\ IsAsciiDigit(s[i]) THEN 1 + DigitRun(s, i + 1) ELSE 0

RECURSIVE DecimalValue(_, _)
DecimalValue(s, n) ==
    IF n = 0 THEN 0 ELSE 10 * DecimalValue(s, n - 1) + (s[n] - ASCII0)

\* parseInt(str) for a string without sign or leading white space: the value
\* of the leading decimal digits, NaN when there is none
parseInt(s) ==
    LET n == DigitRun(s, 1)
    IN  IF n = 0 THEN NaN ELSE DecimalValue(s, n)

\* a lower-casing that leaves every code unit as it is
toLowerCaseIdentity(s) == s
\* String.prototype.toLowerCase on the code units of the model's alphabet
toLowerCase(s) ==
    [i \in 1..Len(s) |-> IF s[i] >= 65 /\ s[i] <= 90 THEN s[i] + 32 ELSE s[i]]

\* String.prototype.includes
includes(s, t) ==
    \E i \in 1..(Len(s) - Len(t) + 1) : SubSeq(s, i, i + Len(t) - 1) = t

\* ------------------------------------------------------------------------
\* detectMonthFromFilename
\* ------------------------------------------------------------------------
\* the first index >= i of s that holds no white space (Len(s)+1 if none)
RECURSIVE SkipSpaces(_, _)
SkipSpaces(s, i) ==
    IF i <= Len(s) /\ IsSpace(s[i]) THEN SkipSpaces(s, i + 1) ELSE i

\* /([0-9０-９]{1,2})\s*月/ matches at i with a group of n digits
MonthKanjiAt(s, i, n) ==
    /\ i + n - 1 <= Len(s)
    /\ \A k \in i..(i + n - 1) : IsDigitClass(s[k])
    /\ LET j == SkipSpaces(s, i + n)
       IN  j <= Len(s) /\ s[j] = TSUKI

\* filename.match(/([0-9０-９]{1,2})\s*月/): the group of the leftmost match,
\* two digits preferred to one (greedy), <<>> when there is no match
MatchMonthKanji(s) ==
    LET starts == {i \in 1..Len(s) : MonthKanjiAt(s, i, 2) \/ MonthKanjiAt(s, i, 1)}
    IN  IF starts = {} THEN <<>>
        ELSE LET i == CHOOSE a \in starts : \A b \in starts : a <= b
             IN  IF MonthKanjiAt(s, i, 2) THEN SubSeq(s, i, i + 1)
                 ELSE SubSeq(s, i, i)

\* the pattern without '.' among its closing delimiters
DelimitedAtNoDot(s, i) ==
    /\ i + 3 <= Len(s)
    /\ s[i] \in {USCORE, HYPHEN}
    /\ IsAsciiDigit(s[i + 1]) /\ IsAsciiDigit(s[i + 2])
    /\ s[i + 3] \in {USCORE, HYPHEN}
\* /[_\-]([0-9]{2})[_\-\.]/ matches at i
DelimitedAt(s, i) ==
    /\ i + 3 <= Len(s)
    /\ s[i] \in {USCORE, HYPHEN}
    /\ IsAsciiDigit(s[i + 1]) /\ IsAsciiDigit(s[i + 2])
    /\ s[i + 3] \in {USCORE, HYPHEN, DOT}

\* filename.match(/[_\-]([0-9]{2})[_\-\.]/): the group of the leftmost match
MatchDelimited(s) ==
    LET starts == {i \in 1..Len(s) : DelimitedAt(s, i)}
    IN  IF starts = {} THEN <<>>
        ELSE LET i == CHOOSE a \in starts : \A b \in starts : a <= b
             IN  SubSeq(s, i + 1, i + 2)

\* the offset without the wrap of 0 to 12
InvoiceOffsetNoWrap(month) == month - 1
\* month = month - 1; if (month === 0) month = 12;
InvoiceOffset(month) ==
    IF month - 1 = 0 THEN 12 ELSE month - 1

\* the range test without its lower bound
InRangeNoLower(month) == month <= 12
\* if (month >= 1 && month <= 12) return month;
InRange(month) == month >= 1 /\ month <= 12

\* the monthNames table in the order of its keys (Object.entries)
monthNames == <<
    <<(* jan *)       <<106, 97, 110>>, 1>>,
    <<(* january *)   <<106, 97, 110, 117, 97, 114, 121>>, 1>>,
    <<(* feb *)       <<102, 101, 98>>, 2>>,
    <<(* february *)  <<102, 101, 98, 114, 117, 97, 114, 121>>, 2>>,
    <<(* mar *)       <<109, 97, 114>>, 3>>,
    <<(* march *)     <<109, 97, 114, 99, 104>>, 3>>,
    <<(* apr *)       <<97, 112, 114>>, 4>>,
    <<(* april *)     <<97, 112, 114, 105, 108>>, 4>>,
    <<(* may *)       <<109, 97, 121>>, 5>>,
    <<(* jun *)       <<106, 117, 110>>, 6>>,
    <<(* june *)      <<106, 117, 110, 101>>, 6>>,
    <<(* jul *)       <<106, 117, 108>>, 7>>,
    <<(* july *)      <<106, 117, 108, 121>>, 7>>,
    <<(* aug *)       <<97, 117, 103>>, 8>>,
    <<(* august *)    <<97, 117, 103, 117, 115, 116>>, 8>>,
    <<(* sep *)       <<115, 101, 112>>, 9>>,
    <<(* september *) <<115, 101, 112, 116, 101, 109, 98, 101, 114>>, 9>>,
    <<(* oct *)       <<111, 99, 116>>, 10>>,
    <<(* october *)   <<111, 99, 116, 111, 98, 101, 114>>, 10>>,
    <<(* nov *)       <<110, 111, 118>>, 11>>,
    <<(* november *)  <<110, 111, 118, 101, 109, 98, 101, 114>>, 11>>,
    <<(* dec *)       <<100, 101, 99>>, 12>>,
    <<(* december *)  <<100, 101, 99, 101, 109, 98, 101, 114>>, 12>>
>>

\* heuristic 1: digits followed by 月; NULL when the function goes on to
\* heuristic 2
MonthFromKanji(filename) ==
    LET match == MatchMonthKanji(filename)
    IN  IF match = <<>> THEN NULL
        ELSE LET month == parseInt(ToHalfWidth(match))
             IN  \* NaN - 1 is NaN, which fails both comparisons
                 IF month = NaN THEN NULL
                 ELSE IF InRange(InvoiceOffset(month)) THEN InvoiceOffset(month)
                 ELSE NULL

\* heuristic 2: a delimited two-digit number; NULL when the function goes on
\* to heuristic 3
MonthFromDelimited(filename) ==
    LET match == MatchDelimited(filename)
    IN  IF match = <<>> THEN NULL
        ELSE LET month == parseInt(match)
             IN  \* NaN - 1 is NaN, which fails both comparisons
                 IF month = NaN THEN NULL
                 ELSE IF InRange(InvoiceOffset(month)) THEN InvoiceOffset(month)
                 ELSE NULL

\* heuristic 3 with the table walked from its last entry
MonthFromNameLastEntry(filename) ==
    LET lowerFilename == toLowerCase(filename)
        hits == {k \in 1..Len(monthNames) : includes(lowerFilename, monthNames[k][1])}
    IN  IF hits = {} THEN NULL
        ELSE monthNames[CHOOSE a \in hits : \A b \in hits : a >= b][2]
\* heuristic 3 with month 1 as its default
MonthFromNameDefault(filename) ==
    LET lowerFilename == toLowerCase(filename)
        hits == {k \in 1..Len(monthNames) : includes(lowerFilename, monthNames[k][1])}
    IN  IF hits = {} THEN 1
        ELSE monthNames[CHOOSE a \in hits : \A b \in hits : a <= b][2]
\* heuristic 3: the first entry of monthNames whose name the lower-cased
\* filename includes; NULL when there is none
MonthFromName(filename) ==
    LET lowerFilename == toLowerCase(filename)
        hits == {k \in 1..Len(monthNames) : includes(lowerFilename, monthNames[k][1])}
    IN  IF hits = {} THEN NULL
        ELSE monthNames[CHOOSE a \in hits : \A b \in hits : a <= b][2]

\* the heuristics with the month names tried first
detectMonthNamesFirst(filename) ==
    IF MonthFromName(filename) # NULL THEN MonthFromName(filename)
    ELSE IF MonthFromKanji(filename) # NULL THEN MonthFromKanji(filename)
    ELSE MonthFromDelimited(filename)
detectMonthFromFilename(filename) ==
    IF MonthFromKanji(filename) # NULL THEN MonthFromKanji(filename)
    ELSE IF MonthFromDelimited(filename) # NULL THEN MonthFromDelimited(filename)
    ELSE MonthFromName(filename)

\* ------------------------------------------------------------------------
\* State
\* ------------------------------------------------------------------------
VARIABLES
    \* the detector applied to one filename
    filename, detectedMonth, detectPc,
    \* let uploadedFiles: <<[file, detectedMonth, selectedMonth], ...>>, a file
    \* being its name
    uploadedFiles,
    \* let currentMode
    currentMode,
    \* elements.corpName.value, elements.address.value, elements.corpNumber.value
    corpName, address, corpNumber,
    \* elements.executeBtn: [disabled, display]
    executeBtn,
    \* elements.resetBtn.style.display, progressArea and downloadArea likewise
    resetBtn, progressArea, downloadArea,
    \* elements.resultArea: [tbody, rows]; tbody is the handleExecute call whose
    \* table body the area holds, 0 for the empty placeholder
    resultArea,
    \* the handleExecute calls suspended at await fetch('/api/process')
    pending,
    \* the number of fetch('/api/process') calls made so far
    submits,
    \* the alert() dialog that is open, "none" when there is none; alert()
    \* blocks the event loop until the user closes the dialog
    alertOpen,
    \* the bodies of the fetch('/api/process') calls the last step made: none
    \* or one FormData
    fetched,
    \* addResultRow applied to one response item
    rowResult, rowSelectedMonth, tableRows, rowPc

detectVars == <<filename, detectedMonth, detectPc>>
rowVars == <<rowResult, rowSelectedMonth, tableRows, rowPc>>
functionVars == <<detectVars, rowVars>>
pageVars == <<uploadedFiles, currentMode, corpName, address, corpNumber, executeBtn,
              resetBtn, progressArea, downloadArea, resultArea, pending, submits,
              alertOpen, fetched>>
vars == <<functionVars, pageVars>>

\* ------------------------------------------------------------------------
\* Bounds and inputs of the page
\* ------------------------------------------------------------------------
\* the length uploadedFiles may reach
MaxFiles == 2
\* the number of process requests a run may issue
MaxSubmits == 2

\* the names of the files the user has at hand: "12月" and "a"
FileNames == {<<49, 50, TSUKI>>, <<97>>}
\* the options of a month dropdown the user picks: 1 and 12 of 1..12
PickedMonths == {1, 12}
\* what the user types as client name: nothing, a blank, "A"
TypedNames == {<<>>, <<SPACE>>, <<65>>}
\* what the user types as address and as registration number: nothing or a
\* character
TypedAddresses == {<<>>, <<66>>}
TypedNumbers == {<<>>, <<49>>}

\* the files the user has at hand, <<name, type>>: two PDFs and a text file
Files == (FileNames \X {"application/pdf"}) \cup {<<<<97>>, "text/plain">>}
\* the batches the user selects or drops at once: no file, one or two
Batches == {<<>>} \cup {<<f>> : f \in Files} \cup {<<f, g>> : f \in Files, g \in Files}

\* ------------------------------------------------------------------------
\* Helpers of the handlers
\* ------------------------------------------------------------------------
\* String(n) for 0 <= n <= 99
NumberToString(n) ==
    IF n < 10 THEN <<ASCII0 + n>> ELSE <<ASCII0 + (n \div 10), ASCII0 + (n % 10)>>

\* trim that removes nothing
trimIdentity(s) == s
\* String.prototype.trim
RECURSIVE trim(_)
trim(s) ==
    IF s = <<>> THEN s
    ELSE IF IsSpace(Head(s)) THEN trim(Tail(s))
    ELSE IF IsSpace(s[Len(s)]) THEN trim(SubSeq(s, 1, Len(s) - 1))
    ELSE s

\* files.filter(f => f.type === 'application/pdf')
RECURSIVE FilterPdf(_)
FilterPdf(files) ==
    IF files = <<>> THEN <<>>
    ELSE IF Head(files)[2] = "application/pdf" THEN <<Head(files)>> \o FilterPdf(Tail(files))
    ELSE FilterPdf(Tail(files))

\* detectedMonth || 1 with null left as it is
OrOneKeepNull(month) == IF month = 0 \/ month = NaN THEN 1 ELSE month
\* detectedMonth || 1: 1 for null, 0 and NaN
OrOne(month) == IF month = NULL \/ month = 0 \/ month = NaN THEN 1 ELSE month

\* the entry addFiles pushes for a file
NewEntry(file) ==
    [file |-> file[1],
     detectedMonth |-> detectMonthFromFilename(file[1]),
     selectedMonth |-> OrOne(detectMonthFromFilename(file[1]))]

\* updateExecuteButton, for the list and the button it finds
updateExecuteButton(files, btn) ==
    [btn EXCEPT !.disabled = (Len(files) = 0)]

\* uploadedFiles.splice(index, 1), index counted from 1
RemoveAt(s, index) ==
    SubSeq(s, 1, index - 1) \o SubSeq(s, index + 1, Len(s))

\* ------------------------------------------------------------------------
\* Rendering of a response
\* ------------------------------------------------------------------------
\* '値' (U+5024)
ATAI == 20516
\* "ocr_confidence"
OcrConfidenceKey == <<111, 99, 114, 95, 99, 111, 110, 102, 105, 100, 101, 110, 99, 101>>

\* s.replace(t, ''): s without the first occurrence of t
RemoveFirst(s, t) ==
    LET at == {i \in 1..(Len(s) - Len(t) + 1) : SubSeq(s, i, i + Len(t) - 1) = t}
    IN  IF at = {} THEN s
        ELSE LET i == CHOOSE a \in at : \A b \in at : a <= b
             IN  SubSeq(s, 1, i - 1) \o SubSeq(s, i + Len(t), Len(s))

\* [\u3040-\u309F\u30A0-\u30FF\u4E00-\u9FFF]
IsJapanese(c) ==
    \/ c >= 12352 /\ c <= 12447
    \/ c >= 12448 /\ c <= 12543
    \/ c >= 19968 /\ c <= 40959

\* the number of code units of s that satisfy Test
CountJapanese(s) == Cardinality({i \in 1..Len(s) : IsJapanese(s[i])})
CountNonSpace(s) == Cardinality({i \in 1..Len(s) : ~IsSpace(s[i])})

\* shouldShowOcr: confidence (in hundredths) at least 0.8, a text, and at
\* least 20% of its non-blank characters Japanese
shouldShowOcr(result) ==
    /\ result.ocr_confidence >= 80
    /\ Len(result.ocr_text) > 0
    /\ CountNonSpace(result.ocr_text) > 0
    /\ 5 * CountJapanese(result.ocr_text) >= CountNonSpace(result.ocr_text)

\* the rows of ocrDetailsHtml: the collapsible full text, the "unavailable"
\* notice, or nothing
ocrDetailsHtml(result) ==
    IF shouldShowOcr(result)
    THEN <<[kind |-> "ocr-details", month |-> <<>>, kwh |-> NULL, status |-> "none",
            text |-> result.ocr_text]>>
    ELSE IF Len(result.ocr_text) > 0
    THEN <<[kind |-> "ocr-unavailable", month |-> <<>>, kwh |-> NULL, status |-> "none",
            text |-> <<>>]>>
    ELSE <<>>

\* the comparator of the sort of monthKeys: monthA - monthB, NaN counting as 0
CompareKeys(a, b) ==
    LET monthA == parseInt(RemoveFirst(a, <<TSUKI, ATAI>>))
        monthB == parseInt(RemoveFirst(b, <<TSUKI, ATAI>>))
    IN  IF monthA = NaN \/ monthB = NaN THEN 0 ELSE monthA - monthB

RECURSIVE InsertKey(_, _)
InsertKey(sorted, k) ==
    IF sorted = <<>> THEN <<k>>
    ELSE IF CompareKeys(sorted[Len(sorted)], k) > 0
         THEN InsertKey(SubSeq(sorted, 1, Len(sorted) - 1), k) \o <<sorted[Len(sorted)]>>
         ELSE sorted \o <<k>>

\* Array.prototype.sort with CompareKeys (stable)
RECURSIVE SortKeys(_)
SortKeys(keys) ==
    IF keys = <<>> THEN <<>>
    ELSE InsertKey(SortKeys(SubSeq(keys, 1, Len(keys) - 1)), keys[Len(keys)])

\* Object.keys(result.fields).filter(key => key !== 'ocr_confidence').sort(...)
MonthKeys(fields) ==
    SortKeys(SelectSeq([i \in 1..Len(fields) |-> fields[i][1]],
                       LAMBDA key : key # OcrConfidenceKey))

\* result.fields[key]
FieldValue(fields, key) ==
    fields[CHOOSE i \in 1..Len(fields) : fields[i][1] = key][2]

\* a selectedMonth that is truthy
Truthy(month) == month # NULL /\ month # 0 /\ month # NaN

\* the rows addResultRow appends for a response item
addResultRow(result, selectedMonth) ==
    IF result.hasFields /\ Len(result.fields) > 0
    THEN LET monthKeys == MonthKeys(result.fields)
         IN  IF Len(monthKeys) > 0
             THEN [i \in 1..Len(monthKeys) |->
                      [kind |-> "data",
                       month |-> RemoveFirst(monthKeys[i], <<ATAI>>),
                       kwh |-> FieldValue(result.fields, monthKeys[i]),
                       status |-> "success",
                       text |-> <<>>]]
                  \o ocrDetailsHtml(result)
             ELSE IF Truthy(selectedMonth)
             THEN <<[kind |-> "not-found",
                     month |-> NumberToString(selectedMonth) \o <<TSUKI>>,
                     kwh |-> NULL,
                     status |-> "success",
                     text |-> <<>>]>>
                  \o ocrDetailsHtml(result)
             ELSE <<>>
    ELSE IF Truthy(selectedMonth)
    THEN <<[kind |-> "error",
            month |-> NumberToString(selectedMonth) \o <<TSUKI>>,
            kwh |-> NULL,
            status |-> "error",
            text |-> <<>>]>>
    ELSE <<>>

\* the row addErrorRow appends
addErrorRow(itemFilename) ==
    <<[kind |-> "error", month |-> <<HYPHEN>>, kwh |-> NULL, status |-> "error",
       text |-> <<>>]>>

\* uploadedFiles.find(f => f.file.name === item.filename), then its
\* selectedMonth, null when there is none
FindSelectedMonth(files, itemFilename) ==
    LET found == {i \in 1..Len(files) : files[i].file = itemFilename}
    IN  IF found = {} THEN NULL
        ELSE files[CHOOSE a \in found : \A b \in found : a <= b].selectedMonth

\* the rows result.results.forEach(...) appends to the table body
RECURSIVE RenderResults(_, _)
RenderResults(results, files) ==
    IF results = <<>> THEN <<>>
    ELSE LET item == Head(results)
             selectedMonth == FindSelectedMonth(files, item.filename)
         IN  (IF item.status \in {"kanryo", "kWh-mikenshutsu"}
              THEN addResultRow(item, selectedMonth)
              ELSE addErrorRow(item.filename))
             \o RenderResults(Tail(results), files)

\* ------------------------------------------------------------------------
\* Responses of the processing endpoint
\* ------------------------------------------------------------------------
\* "3月値"
Month3Key == <<51, TSUKI, ATAI>>

\* status '完了' with one month value and a readable OCR text
ItemDone(name) ==
    [filename |-> name, status |-> "kanryo", hasFields |-> TRUE,
     fields |-> <<<<Month3Key, 120>>, <<OcrConfidenceKey, 90>>>>,
     ocr_confidence |-> 90, ocr_text |-> <<TSUKI>>]
\* status 'kWh未検出': fields hold the confidence only, the text is unreadable
ItemNotFound(name) ==
    [filename |-> name, status |-> "kWh-mikenshutsu", hasFields |-> TRUE,
     fields |-> <<<<OcrConfidenceKey, 50>>>>,
     ocr_confidence |-> 50, ocr_text |-> <<97>>]
\* status '完了' without fields
ItemNoFields(name) ==
    [filename |-> name, status |-> "kanryo", hasFields |-> FALSE,
     fields |-> <<>>, ocr_confidence |-> 0, ocr_text |-> <<>>]
\* any other status
ItemFailed(name) ==
    [filename |-> name, status |-> "error", hasFields |-> FALSE,
     fields |-> <<>>, ocr_confidence |-> 0, ocr_text |-> <<>>]

\* the bodies of an OK response: without results, or with a result list
ResponseBodies ==
    {[hasResults |-> FALSE, results |-> <<>>], [hasResults |-> TRUE, results |-> <<>>]}
    \cup {[hasResults |-> TRUE, results |-> <<item>>] :
            item \in UNION {{ItemDone(n), ItemNotFound(n), ItemNoFields(n), ItemFailed(n)} :
                               n \in FileNames}}
    \cup {[hasResults |-> TRUE,
           results |-> <<ItemFailed(<<49, 50, TSUKI>>), ItemDone(<<97>>)>>]}

\* ------------------------------------------------------------------------
\* The page
\* ------------------------------------------------------------------------
\* the globals of main.js and the page as loaded, which is the display
\* handleReset restores
PageInit ==
    /\ uploadedFiles = <<>>
    /\ currentMode = "single"
    /\ corpName = <<>>
    /\ address = <<>>
    /\ corpNumber = <<>>
    /\ executeBtn = [disabled |-> TRUE, display |-> "inline-flex"]
    /\ resetBtn = "none"
    /\ progressArea = "none"
    /\ downloadArea = "none"
    /\ resultArea = [tbody |-> 0, rows |-> <<>>]
    /\ pending = {}
    /\ submits = 0
    /\ alertOpen = "none"
    /\ fetched = <<>>

\* no response item is being rendered on its own
RowIdle ==
    /\ rowResult = ItemFailed(<<>>)
    /\ rowSelectedMonth = NULL
    /\ tableRows = <<>>
    /\ rowPc = "idle"

\* no filename is being examined on its own
DetectIdle ==
    /\ filename = <<>>
    /\ detectedMonth = NULL
    /\ detectPc = "idle"

Init ==
    /\ PageInit
    /\ DetectIdle
    /\ RowIdle

\* the user edits the client name field
TypeCorpName(value) ==
    /\ alertOpen = "none"
    /\ value # corpName
    /\ corpName' = value
    /\ UNCHANGED <<uploadedFiles, currentMode, executeBtn, resetBtn, progressArea,
                   downloadArea, resultArea, pending, submits, alertOpen>>
    /\ UNCHANGED <<address, corpNumber>>
    /\ fetched' = <<>>
    /\ UNCHANGED functionVars

\* the user edits the address field
TypeAddress(value) ==
    /\ alertOpen = "none"
    /\ value # address
    /\ address' = value
    /\ fetched' = <<>>
    /\ UNCHANGED <<uploadedFiles, currentMode, corpName, corpNumber, executeBtn,
                   resetBtn, progressArea, downloadArea, resultArea, pending,
                   submits, alertOpen>>
    /\ UNCHANGED functionVars

\* the user edits the registration number field
TypeCorpNumber(value) ==
    /\ alertOpen = "none"
    /\ value # corpNumber
    /\ corpNumber' = value
    /\ fetched' = <<>>
    /\ UNCHANGED <<uploadedFiles, currentMode, corpName, address, executeBtn,
                   resetBtn, progressArea, downloadArea, resultArea, pending,
                   submits, alertOpen>>
    /\ UNCHANGED functionVars

\* handleModeChange: a mode radio button is selected
handleModeChange(value) ==
    /\ alertOpen = "none"
    /\ value # currentMode
    /\ currentMode' = value
    /\ UNCHANGED <<uploadedFiles, corpName, executeBtn, resetBtn, progressArea,
                   downloadArea, resultArea, pending, submits, alertOpen>>
    /\ UNCHANGED <<address, corpNumber>>
    /\ fetched' = <<>>
    /\ UNCHANGED functionVars

\* addFiles(files): push an entry per file, then renderFileList and
\* updateExecuteButton
addFiles(files) ==
    /\ alertOpen = "none"
    /\ uploadedFiles' = uploadedFiles \o [i \in 1..Len(files) |-> NewEntry(files[i])]
    /\ executeBtn' = updateExecuteButton(uploadedFiles', executeBtn)
    /\ UNCHANGED <<currentMode, corpName, resetBtn, progressArea, downloadArea,
                   resultArea, pending, submits, alertOpen>>
    /\ UNCHANGED <<address, corpNumber>>
    /\ fetched' = <<>>
    /\ UNCHANGED functionVars

\* handleFileSelect: the file picker's change event
handleFileSelect ==
    \E files \in Batches :
        /\ Len(uploadedFiles) + Len(files) <= MaxFiles
        /\ addFiles(files)

\* handleDrop: files dropped on the upload area, PDFs only kept
handleDrop ==
    \E files \in Batches :
        /\ Len(uploadedFiles) + Len(FilterPdf(files)) <= MaxFiles
        /\ addFiles(FilterPdf(files))

\* removeFile(index): the remove button of a list item
removeFile(index) ==
    /\ alertOpen = "none"
    /\ uploadedFiles' = RemoveAt(uploadedFiles, index)
    /\ executeBtn' = updateExecuteButton(uploadedFiles', executeBtn)
    /\ UNCHANGED <<currentMode, corpName, resetBtn, progressArea, downloadArea,
                   resultArea, pending, submits, alertOpen>>
    /\ UNCHANGED <<address, corpNumber>>
    /\ fetched' = <<>>
    /\ UNCHANGED functionVars

\* updateFileMonth(index, this.value): onchange of the month dropdown of a
\* list item, which renderFileList draws in single mode only
updateFileMonth(index, month) ==
    /\ alertOpen = "none"
    /\ currentMode = "single"
    /\ parseInt(month) # uploadedFiles[index].selectedMonth
    /\ uploadedFiles' = [uploadedFiles EXCEPT ![index].selectedMonth = parseInt(month)]
    /\ UNCHANGED <<currentMode, corpName, executeBtn, resetBtn, progressArea,
                   downloadArea, resultArea, pending, submits, alertOpen>>
    /\ UNCHANGED <<address, corpNumber>>
    /\ fetched' = <<>>
    /\ UNCHANGED functionVars

\* the mapping with the month addFiles chose in place of the selected one
monthMappingsAsAdded ==
    [i \in 1..Len(uploadedFiles) |->
        [filename |-> uploadedFiles[i].file,
         selectedMonth |-> OrOne(uploadedFiles[i].detectedMonth)]]

\* uploadedFiles.map(item => ({filename: item.file.name, selectedMonth:
\* item.selectedMonth}))
monthMappings ==
    [i \in 1..Len(uploadedFiles) |->
        [filename |-> uploadedFiles[i].file,
         selectedMonth |-> uploadedFiles[i].selectedMonth]]

\* the FormData handleExecute builds, month_mappings being the array its JSON
\* text encodes and a file its name; start_month and month_order, which multi
\* mode adds from two controls of the page, are left out
formData ==
    [corp_name |-> trim(corpName),
     address |-> trim(address),
     corp_number |-> trim(corpNumber),
     mode |-> currentMode,
     month_mappings |-> monthMappings,
     files |-> [i \in 1..Len(uploadedFiles) |-> uploadedFiles[i].file]]

\* handleExecute up to its await: a click on the Execute button, which a
\* disabled or hidden button does not deliver
handleExecute ==
    /\ alertOpen = "none"
    /\ ~executeBtn.disabled
    /\ executeBtn.display # "none"
    /\ submits < MaxSubmits
    /\ IF trim(corpName) = <<>>
       THEN /\ alertOpen' = "corpName"
            /\ fetched' = <<>>
            /\ UNCHANGED <<uploadedFiles, currentMode, corpName, executeBtn, resetBtn,
                           progressArea, downloadArea, resultArea, pending, submits>>
       ELSE IF Len(uploadedFiles) = 0
       THEN /\ alertOpen' = "files"
            /\ fetched' = <<>>
            /\ UNCHANGED <<uploadedFiles, currentMode, corpName, executeBtn, resetBtn,
                           progressArea, downloadArea, resultArea, pending, submits>>
       ELSE /\ executeBtn' = [executeBtn EXCEPT !.disabled = TRUE]
            /\ progressArea' = "block"
            /\ resultArea' = [tbody |-> submits + 1, rows |-> <<>>]
            /\ downloadArea' = "none"
            /\ submits' = submits + 1
            /\ pending' = pending \cup {submits + 1}
            /\ fetched' = <<formData>>
            /\ UNCHANGED <<uploadedFiles, currentMode, corpName, resetBtn, alertOpen>>
    /\ UNCHANGED <<address, corpNumber>>
    /\ UNCHANGED functionVars

\* an OK response whose rows go to whatever table body the result area holds
ResponseOkAnyTable(id, body) ==
    /\ alertOpen = "none"
    /\ id \in pending
    /\ pending' = pending \ {id}
    /\ resultArea' =
           IF body.hasResults /\ resultArea.tbody # 0
           THEN [resultArea EXCEPT
                    !.rows = resultArea.rows \o RenderResults(body.results, uploadedFiles)]
           ELSE resultArea
    /\ progressArea' = "none"
    /\ downloadArea' = "block"
    /\ resetBtn' = "inline-flex"
    /\ executeBtn' = [disabled |-> FALSE, display |-> "none"]
    /\ UNCHANGED <<uploadedFiles, currentMode, corpName, submits, alertOpen>>
    /\ UNCHANGED <<address, corpNumber>>
    /\ fetched' = <<>>
    /\ UNCHANGED functionVars

\* handleExecute resumed with an OK response: the rows go to the table body
\* the call created, which the result area may no longer hold
ResponseOk(id, body) ==
    /\ alertOpen = "none"
    /\ id \in pending
    /\ pending' = pending \ {id}
    /\ resultArea' =
           IF body.hasResults /\ resultArea.tbody = id
           THEN [resultArea EXCEPT
                    !.rows = resultArea.rows \o RenderResults(body.results, uploadedFiles)]
           ELSE resultArea
    /\ progressArea' = "none"
    /\ downloadArea' = "block"
    /\ resetBtn' = "inline-flex"
    /\ executeBtn' = [disabled |-> FALSE, display |-> "none"]
    /\ UNCHANGED <<uploadedFiles, currentMode, corpName, submits, alertOpen>>
    /\ UNCHANGED <<address, corpNumber>>
    /\ fetched' = <<>>
    /\ UNCHANGED functionVars

\* handleExecute resumed with a network error or a response that is not OK:
\* the catch block up to its alert
ResponseFailed(id) ==
    /\ alertOpen = "none"
    /\ id \in pending
    /\ pending' = pending \ {id}
    /\ alertOpen' = "error"
    /\ UNCHANGED <<uploadedFiles, currentMode, corpName, executeBtn, resetBtn,
                   progressArea, downloadArea, resultArea, submits>>
    /\ UNCHANGED <<address, corpNumber>>
    /\ fetched' = <<>>
    /\ UNCHANGED functionVars

\* handleReset without elements.corpNumber.value = ''
handleResetKeepsNumber ==
    /\ alertOpen = "none"
    /\ resetBtn # "none"
    /\ corpName' = <<>>
    /\ address' = <<>>
    /\ uploadedFiles' = <<>>
    /\ resultArea' = [tbody |-> 0, rows |-> <<>>]
    /\ executeBtn' = [disabled |-> TRUE, display |-> "inline-flex"]
    /\ resetBtn' = "none"
    /\ downloadArea' = "none"
    /\ progressArea' = "none"
    /\ UNCHANGED <<currentMode, corpNumber, pending, submits, alertOpen>>
    /\ fetched' = <<>>
    /\ UNCHANGED functionVars

\* handleReset: a click on the Reset button, when it is shown
handleReset ==
    /\ alertOpen = "none"
    /\ resetBtn # "none"
    /\ corpName' = <<>>
    /\ address' = <<>>
    /\ corpNumber' = <<>>
    /\ uploadedFiles' = <<>>
    /\ resultArea' = [tbody |-> 0, rows |-> <<>>]
    /\ executeBtn' = [disabled |-> TRUE, display |-> "inline-flex"]
    /\ resetBtn' = "none"
    /\ downloadArea' = "none"
    /\ progressArea' = "none"
    /\ UNCHANGED <<currentMode, pending, submits, alertOpen>>
    /\ fetched' = <<>>
    /\ UNCHANGED functionVars

\* the user closes the alert dialog and the handler that opened it runs on:
\* the validation alerts return, the catch block hides the progress area and
\* the finally block enables the button
CloseAlert ==
    /\ alertOpen # "none"
    /\ alertOpen' = "none"
    /\ IF alertOpen = "error"
       THEN /\ progressArea' = "none"
            /\ executeBtn' = [executeBtn EXCEPT !.disabled = FALSE]
       ELSE UNCHANGED <<progressArea, executeBtn>>
    /\ UNCHANGED <<uploadedFiles, currentMode, corpName, resetBtn, downloadArea,
                   resultArea, pending, submits>>
    /\ UNCHANGED <<address, corpNumber>>
    /\ fetched' = <<>>
    /\ UNCHANGED functionVars

Next ==
    \/ CloseAlert
    \/ \E value \in TypedNames : TypeCorpName(value)
    \/ \E value \in {"single", "multi"} : handleModeChange(value)
    \/ handleFileSelect
    \/ handleDrop
    \/ \E index \in 1..Len(uploadedFiles) : removeFile(index)
    \/ \E index \in 1..Len(uploadedFiles), m \in PickedMonths :
           updateFileMonth(index, NumberToString(m))
    \/ handleExecute
    \/ \E id \in pending, body \in ResponseBodies : ResponseOk(id, body)
    \/ \E id \in pending : ResponseFailed(id)
    \/ handleReset

Spec == Init /\ [][Next]_vars

\* ------------------------------------------------------------------------
\* The page with its three text fields edited
\* ------------------------------------------------------------------------
\* the response of this specification: one file read with one month value
FormBody == [hasResults |-> TRUE, results |-> <<ItemDone(<<97>>)>>]

\* the fields are typed, files picked and removed with the months as
\* detected, and requests answered with FormBody or a failure
FormNext ==
    \/ CloseAlert
    \/ \E value \in TypedNames : TypeCorpName(value)
    \/ \E value \in TypedAddresses : TypeAddress(value)
    \/ \E value \in TypedNumbers : TypeCorpNumber(value)
    \/ \E value \in {"single", "multi"} : handleModeChange(value)
    \/ handleFileSelect
    \/ \E index \in 1..Len(uploadedFiles) : removeFile(index)
    \/ handleExecute
    \/ \E id \in pending : ResponseOk(id, FormBody)
    \/ \E id \in pending : ResponseFailed(id)
    \/ handleReset

FormSpec == Init /\ [][FormNext]_vars

\* ------------------------------------------------------------------------
\* addResultRow applied to bounded response items
\* ------------------------------------------------------------------------
\* "12月値"
Month12Key == <<49, 50, TSUKI, ATAI>>

\* result.fields: absent, {}, the confidence only, one month value, two month
\* values with the later month first
RowFields ==
    {[hasFields |-> FALSE, fields |-> <<>>],
     [hasFields |-> TRUE, fields |-> <<>>],
     [hasFields |-> TRUE, fields |-> <<<<OcrConfidenceKey, 90>>>>],
     [hasFields |-> TRUE, fields |-> <<<<Month3Key, 120>>, <<OcrConfidenceKey, 90>>>>],
     [hasFields |-> TRUE, fields |-> <<<<Month12Key, 7>>, <<Month3Key, 120>>>>]}

\* result.ocr_confidence in hundredths: absent (0), 0.79, 0.8 and 1
RowConfidences == {0, 79, 80, 100}

\* result.ocr_text: absent or empty, "月", "a", " ", and 月 with four and with
\* five letters, a blank among them or not: a fifth and a sixth of the
\* characters that are not blank
RowTexts ==
    {<<>>, <<TSUKI>>, <<97>>, <<SPACE>>,
     <<TSUKI, 97, 97, 97, 97>>,
     <<TSUKI, SPACE, 97, 97, 97, 97>>,
     <<TSUKI, 97, 97, 97, 97, 97>>}

\* the items addResultRow is called for: status '完了' or 'kWh未検出'
RowResults ==
    {[filename |-> <<97>>, status |-> st, hasFields |-> f.hasFields, fields |-> f.fields,
      ocr_confidence |-> c, ocr_text |-> t] :
        st \in {"kanryo", "kWh-mikenshutsu"}, f \in RowFields, c \in RowConfidences,
        t \in RowTexts}

\* uploadedFile ? uploadedFile.selectedMonth : null
RowMonths == {NULL, 1, 12}

RowInit ==
    /\ PageInit
    /\ DetectIdle
    /\ rowResult \in RowResults
    /\ rowSelectedMonth \in RowMonths
    /\ tableRows = <<>>
    /\ rowPc = "call"

\* addResultRow(resultTableBody, item, selectedMonth) on an empty table body
CallAddResultRow ==
    /\ rowPc = "call"
    /\ tableRows' = addResultRow(rowResult, rowSelectedMonth)
    /\ rowPc' = "done"
    /\ UNCHANGED <<rowResult, rowSelectedMonth>>
    /\ UNCHANGED <<detectVars, pageVars>>

RowNext == CallAddResultRow

RowSpec == RowInit /\ [][RowNext]_vars

\* ------------------------------------------------------------------------
\* The response that answers a submission file by file
\* ------------------------------------------------------------------------
\* the entries a PDF of the user can have in the list: as addFiles made it,
\* or with a month picked from its dropdown
ListEntries ==
    UNION {{NewEntry(f)} \cup {[NewEntry(f) EXCEPT !.selectedMonth = m] : m \in PickedMonths} :
              f \in FileNames \X {"application/pdf"}}

\* the lists of one to MaxFiles such entries
SubmittedLists == UNION {[1..n -> ListEntries] : n \in 1..MaxFiles}

\* the results the endpoint returns for a list: one item per file, in the
\* order of the files, under the name of the file
PerFileBodies(files) ==
    {[hasResults |-> TRUE, results |-> results] :
        results \in {r \in [1..Len(files) ->
                              UNION {{ItemDone(n), ItemNotFound(n), ItemNoFields(n),
                                      ItemFailed(n)} : n \in FileNames}] :
                        \A i \in 1..Len(files) : r[i].filename = files[i].file}}

\* the page when the first click on Execute has sent its request, in single
\* mode with "A" as client name
RenderInit ==
    /\ uploadedFiles \in SubmittedLists
    /\ currentMode = "single"
    /\ corpName = <<65>>
    /\ address = <<>>
    /\ corpNumber = <<>>
    /\ executeBtn = [disabled |-> TRUE, display |-> "inline-flex"]
    /\ resetBtn = "none"
    /\ progressArea = "block"
    /\ downloadArea = "none"
    /\ resultArea = [tbody |-> 1, rows |-> <<>>]
    /\ pending = {1}
    /\ submits = 1
    /\ alertOpen = "none"
    /\ fetched = <<formData>>
    /\ DetectIdle
    /\ RowIdle

\* the response arrives with the list as it was submitted
RenderNext ==
    \E body \in PerFileBodies(uploadedFiles) : ResponseOk(1, body)

RenderSpec == RenderInit /\ [][RenderNext]_vars

\* ------------------------------------------------------------------------
\* The detector applied to bounded filenames
\* ------------------------------------------------------------------------
\* the number of fragments a filename is built from
MaxFrags == 3

\* the pieces filenames are built from
Fragments == {
    <<49>>,                 \* "1"
    <<48>>,                 \* "0"
    <<49, 50>>,             \* "12"
    <<49, 51>>,             \* "13"
    <<48, 49>>,             \* "01"
    <<48, 48>>,             \* "00"
    <<65297>>,              \* full-width 1
    <<65298>>,              \* full-width 2
    <<TSUKI>>,              \* 月
    <<SPACE>>,
    <<USCORE>>,
    <<HYPHEN>>,
    <<DOT>>,
    <<114, 101, 97, 100, 109, 101>>,   \* "readme"
    <<109, 97, 114>>,       \* "mar"
    <<99, 104>>,            \* "ch"
    <<74, 97, 110>>,        \* "Jan"
    <<68, 69, 67>>,         \* "DEC"
    <<51, TSUKI>>,          \* "3月"
    <<USCORE, 49, 50, USCORE>>   \* "_12_"
}

RECURSIVE Flatten(_)
Flatten(fs) == IF fs = <<>> THEN <<>> ELSE Head(fs) \o Flatten(Tail(fs))

Filenames == {Flatten(fs) : fs \in UNION {[1..n -> Fragments] : n \in 0..MaxFrags}}

DetectInit ==
    /\ PageInit
    /\ RowIdle
    /\ filename \in Filenames
    /\ detectedMonth = NULL
    /\ detectPc = "call"

\* const detectedMonth = detectMonthFromFilename(file.name)
CallDetect ==
    /\ detectPc = "call"
    /\ detectedMonth' = detectMonthFromFilename(filename)
    /\ detectPc' = "done"
    /\ UNCHANGED filename
    /\ UNCHANGED <<rowVars, pageVars>>

DetectNext == CallDetect

DetectSpec == DetectInit /\ [][DetectNext]_vars

\* ------------------------------------------------------------------------
\* What the claims say of a filename, read off the filename itself
\* ------------------------------------------------------------------------
\* the month one before n, 1 wrapping to 12
PreviousMonth(n) == IF n = 1 THEN 12 ELSE n - 1

DigitValue(c) == IF c >= FW0 THEN c - FW0 ELSE c - ASCII0

\* the numeral of at most two digits that ends at index d of s
NumeralEndingAt(s, d) ==
    IF d >= 2 /\ IsDigitClass(s[d - 1])
    THEN 10 * DigitValue(s[d - 1]) + DigitValue(s[d])
    ELSE DigitValue(s[d])

\* the last index <= p of s that holds no white space (0 if none)
RECURSIVE BackOverSpaces(_, _)
BackOverSpaces(s, p) ==
    IF p >= 1 /\ IsSpace(s[p]) THEN BackOverSpaces(s, p - 1) ELSE p

\* the numerals that stand immediately before a 月
NumeralsBeforeKanji(s) ==
    {NumeralEndingAt(s, p - 1) :
        p \in {q \in 2..Len(s) : s[q] = TSUKI /\ IsDigitClass(s[q - 1])}}

\* the indices of the digits that a 月 follows, white space allowed between
KanjiDigitEnds(s) ==
    {d \in 1..Len(s) :
        /\ IsDigitClass(s[d])
        /\ \E p \in (d + 1)..Len(s) : s[p] = TSUKI /\ BackOverSpaces(s, p - 1) = d}

\* the numeral before the first 月 that has one
FirstKanjiNumeral(s) ==
    NumeralEndingAt(s, CHOOSE d \in KanjiDigitEnds(s) : \A e \in KanjiDigitEnds(s) : d <= e)

\* the indices at which a delimited two-digit number starts
DelimitedStarts(s) ==
    {i \in 1..(Len(s) - 3) :
        /\ s[i] = USCORE \/ s[i] = HYPHEN
        /\ s[i + 1] \in ASCII0..(ASCII0 + 9) /\ s[i + 2] \in ASCII0..(ASCII0 + 9)
        /\ s[i + 3] = USCORE \/ s[i + 3] = HYPHEN \/ s[i + 3] = DOT}

DelimitedNumeralAt(s, i) == 10 * (s[i + 1] - ASCII0) + (s[i + 2] - ASCII0)

FirstDelimitedNumeral(s) ==
    DelimitedNumeralAt(s, CHOOSE i \in DelimitedStarts(s) : \A j \in DelimitedStarts(s) : i <= j)

\* a and b are the same letter, whatever their case
SameLetter(a, b) ==
    \/ a = b
    \/ a >= 65 /\ a <= 90 /\ b = a + 32
    \/ b >= 65 /\ b <= 90 /\ a = b + 32

\* s contains t, letter case ignored
ContainsIgnoringCase(s, t) ==
    \E i \in 1..(Len(s) - Len(t) + 1) : \A k \in 1..Len(t) : SameLetter(s[i + k - 1], t[k])

\* the months whose English name or abbreviation s contains
MonthsNamed(s) ==
    {monthNames[k][2] : k \in {j \in 1..Len(monthNames) : ContainsIgnoringCase(s, monthNames[j][1])}}

Done == detectPc = "done"

\* ------------------------------------------------------------------------
\* C1
\* ------------------------------------------------------------------------
\* C1: for every filename, detectMonthFromFilename returns null or an integer
\* in 1..12, never 0, a negative number, a number above 12 or NaN.
C1_NullOrMonth ==
    Done => (detectedMonth = NULL \/ detectedMonth \in 1..12)

\* "1月": the numeral 1 is wrapped to 12
C1_Witness ==
    /\ Done
    /\ filename = <<49, TSUKI>>
    /\ detectedMonth = 12

\* ------------------------------------------------------------------------
\* C2
\* ------------------------------------------------------------------------
\* C2 as stated: for every numeral NN in 1..12 that stands before a 月 in the
\* filename, the function returns NN-1, 1 wrapping to 12.
C2_Original ==
    Done => \A nn \in NumeralsBeforeKanji(filename) :
                nn \in 1..12 => detectedMonth = PreviousMonth(nn)

\* C2 amended: when the leftmost occurrence of one or two digits, optional
\* white space and 月 has a numeral NN in 1..12 (two digits when two precede),
\* the function returns NN-1, 1 wrapping to 12.
C2_FirstKanjiNumeral ==
    (Done /\ KanjiDigitEnds(filename) # {} /\ FirstKanjiNumeral(filename) \in 1..12)
        => detectedMonth = PreviousMonth(FirstKanjiNumeral(filename))

\* a year-like prefix before "12月": "1312月" gives 11
C2_Witness ==
    /\ Done
    /\ filename = <<49, 51, 49, 50, TSUKI>>
    /\ detectedMonth = 11

\* ------------------------------------------------------------------------
\* C3
\* ------------------------------------------------------------------------
\* C3 as stated: for every delimited two-digit number NN in 01..12 of a
\* filename without digits followed by 月, the function returns NN-1, 01
\* wrapping to 12.
C3_Original ==
    (Done /\ NumeralsBeforeKanji(filename) = {})
        => \A i \in DelimitedStarts(filename) :
               DelimitedNumeralAt(filename, i) \in 1..12
                   => detectedMonth = PreviousMonth(DelimitedNumeralAt(filename, i))

\* C3 amended: when the filename has no digits, optional white space, 月
\* pattern and its leftmost delimited two-digit number NN is in 01..12, the
\* function returns NN-1, 01 wrapping to 12.
C3_FirstDelimitedNumeral ==
    (/\ Done
     /\ KanjiDigitEnds(filename) = {}
     /\ DelimitedStarts(filename) # {}
     /\ FirstDelimitedNumeral(filename) \in 1..12)
        => detectedMonth = PreviousMonth(FirstDelimitedNumeral(filename))

\* "-12." as in "invoice_2025-12.pdf"
C3_Witness ==
    /\ Done
    /\ filename = <<HYPHEN, 49, 50, DOT>>
    /\ detectedMonth = 11

\* ------------------------------------------------------------------------
\* C4
\* ------------------------------------------------------------------------
\* C4: in heuristics 1 and 2 a parsed numeral outside 1..12 is rejected: it
\* does not determine the returned month and detection goes on with the next
\* heuristic.
C4_OutOfRangeRejected ==
    /\ (Done /\ KanjiDigitEnds(filename) # {} /\ FirstKanjiNumeral(filename) \notin 1..12)
           => detectedMonth =
                  (IF MonthFromDelimited(filename) # NULL
                   THEN MonthFromDelimited(filename)
                   ELSE MonthFromName(filename))
    /\ (/\ Done
        /\ KanjiDigitEnds(filename) = {}
        /\ DelimitedStarts(filename) # {}
        /\ FirstDelimitedNumeral(filename) \notin 1..12)
           => detectedMonth = MonthFromName(filename)

\* ------------------------------------------------------------------------
\* C5
\* ------------------------------------------------------------------------
\* C5 as stated: for every English month name or abbreviation (any letter
\* case) contained in a filename that matches neither numeric heuristic, the
\* function returns that month's number, without the offset.
C5_Original ==
    (Done /\ KanjiDigitEnds(filename) = {} /\ DelimitedStarts(filename) = {})
        => \A m \in MonthsNamed(filename) : detectedMonth = m

\* C5 amended: when the filename matches neither numeric heuristic and the
\* English month names and abbreviations it contains (any letter case) all
\* name one month, the function returns that month's number, without the
\* offset.
C5_SingleMonthNamed ==
    (Done /\ KanjiDigitEnds(filename) = {} /\ DelimitedStarts(filename) = {})
        => \A m \in MonthsNamed(filename) :
               MonthsNamed(filename) = {m} => detectedMonth = m

\* "DEC.": an upper-case abbreviation
C5_Witness ==
    /\ Done
    /\ filename = <<68, 69, 67, DOT>>
    /\ detectedMonth = 12

\* ------------------------------------------------------------------------
\* C6
\* ------------------------------------------------------------------------
\* C6: the heuristics have fixed priority: a month yielded by the 月 heuristic
\* is returned whatever the other two would yield, and when it yields nothing
\* a month yielded by the delimited-number heuristic is returned whatever
\* month names the filename contains.
C6_FixedPriority ==
    Done =>
        /\ MonthFromKanji(filename) # NULL => detectedMonth = MonthFromKanji(filename)
        /\ (MonthFromKanji(filename) = NULL /\ MonthFromDelimited(filename) # NULL)
               => detectedMonth = MonthFromDelimited(filename)

\* "3月_12_Jan": the three heuristics yield 2, 11 and 1
C6_Witness ==
    /\ Done
    /\ filename = <<51, TSUKI, USCORE, 49, 50, USCORE, 74, 97, 110>>
    /\ MonthFromDelimited(filename) = 11
    /\ MonthFromName(filename) = 1
    /\ detectedMonth = 2

\* ------------------------------------------------------------------------
\* C7
\* ------------------------------------------------------------------------
\* C7: a filename with no digits before 月, no delimited two-digit number and
\* no English month name makes the function return null.
C7_NoMatchGivesNull ==
    (/\ Done
     /\ KanjiDigitEnds(filename) = {}
     /\ DelimitedStarts(filename) = {}
     /\ MonthsNamed(filename) = {})
        => detectedMonth = NULL

\* "readme."
C7_Witness ==
    /\ Done
    /\ filename = <<114, 101, 97, 100, 109, 101, DOT>>
    /\ detectedMonth = NULL

\* ------------------------------------------------------------------------
\* C8
\* ------------------------------------------------------------------------
\* C8: in every reachable state of the page, every entry of uploadedFiles has
\* a selectedMonth that is an integer in 1..12.
C8_SelectedMonthInRange ==
    \A i \in 1..Len(uploadedFiles) : uploadedFiles[i].selectedMonth \in 1..12

\* after a submission: a file whose detected month 11 was changed to 12 in
\* the dropdown, and a file without detected month, left at the default 1
C8_Witness ==
    /\ submits > 0
    /\ Len(uploadedFiles) = 2
    /\ uploadedFiles[1].detectedMonth = 11 /\ uploadedFiles[1].selectedMonth = 12
    /\ uploadedFiles[2].detectedMonth = NULL /\ uploadedFiles[2].selectedMonth = 1

\* ------------------------------------------------------------------------
\* C9
\* ------------------------------------------------------------------------
\* C9: at most one request to the processing endpoint is in flight at any
\* time.
C9_AtMostOneInFlight ==
    Cardinality(pending) <= 1

\* ------------------------------------------------------------------------
\* C10
\* ------------------------------------------------------------------------
\* C10: from the moment a submission passes validation until its request
\* completes, the Execute control is disabled, whatever other events occur.
C10_DisabledWhilePending ==
    pending # {} => executeBtn.disabled

\* ------------------------------------------------------------------------
\* C11
\* ------------------------------------------------------------------------
\* a string that holds white space only
Blank(s) == \A i \in 1..Len(s) : IsSpace(s[i])

\* C11: a click on Execute while the client name is empty after trimming,
\* or while the file list is empty, opens an alert and sends no process
\* request; the file list, the result area, the progress area, the download
\* area and the two buttons stay as they were.
C11_InvalidSubmissionOnlyAlerts ==
    [][(handleExecute /\ (Blank(corpName) \/ uploadedFiles = <<>>))
          => /\ alertOpen' \in {"corpName", "files"}
             /\ fetched' = <<>>
             /\ UNCHANGED <<uploadedFiles, resultArea, progressArea, downloadArea,
                            executeBtn, resetBtn, pending, submits>>]_vars

\* the alert of a click with a blank as client name and a file in the list
C11_Witness ==
    /\ alertOpen = "corpName"
    /\ corpName = <<SPACE>>
    /\ Len(uploadedFiles) > 0
    /\ submits = 0

\* ------------------------------------------------------------------------
\* C12
\* ------------------------------------------------------------------------
\* C12: when a process request fails, an alert is shown and, once the
\* failure handling has run, the progress indicator is hidden and the
\* Execute button is visible and enabled; the failure handling changes
\* neither uploadedFiles nor the selectedMonth of any file.
C12_FailureLeavesRetry ==
    [][/\ (\E id \in pending : ResponseFailed(id))
           => (alertOpen' = "error" /\ uploadedFiles' = uploadedFiles)
       /\ (alertOpen = "error" /\ CloseAlert)
           => /\ progressArea' = "none"
              /\ executeBtn'.display # "none"
              /\ ~executeBtn'.disabled
              /\ uploadedFiles' = uploadedFiles]_vars

\* ------------------------------------------------------------------------
\* C13
\* ------------------------------------------------------------------------
\* the rows a step has appended to the table of the result area
AppendedRows ==
    SubSeq(resultArea'.rows, Len(resultArea.rows) + 1, Len(resultArea'.rows))

\* the rows split into one non-empty run per item, cut[i] being where the run
\* of item i starts; the run of an item with another status than '完了' and
\* 'kWh未検出' is one failed row
OneRunPerItem(results, rows) ==
    \E cut \in [1..(Len(results) + 1) -> 1..(Len(rows) + 1)] :
        /\ cut[1] = 1
        /\ cut[Len(results) + 1] = Len(rows) + 1
        /\ \A i \in 1..Len(results) :
               /\ cut[i] < cut[i + 1]
               /\ results[i].status \notin {"kanryo", "kWh-mikenshutsu"}
                      => /\ cut[i + 1] = cut[i] + 1
                         /\ rows[cut[i]].status = "error"

\* C13: every item of the result list of a successful response produces at
\* least one row in the results table, an item with another status than
\* '完了' and 'kWh未検出' exactly one failed row, and no item produces no
\* row, also when its file has left the list or it carries no fields.
C13_EveryItemHasRows ==
    [][\A id \in pending, body \in ResponseBodies :
          (ResponseOk(id, body) /\ body.hasResults /\ resultArea.tbody = id)
              => OneRunPerItem(body.results, AppendedRows)]_vars

\* ------------------------------------------------------------------------
\* C14
\* ------------------------------------------------------------------------
\* C14: for every item addResultRow renders (draws a row for) whose OCR
\* confidence is at least 80% and whose OCR text is not empty, the OCR full
\* text is displayed in a collapsible block after the rows of the item.
C14_OcrTextShown ==
    (/\ rowPc = "done"
     /\ tableRows # <<>>
     /\ rowResult.ocr_confidence >= 80
     /\ Len(rowResult.ocr_text) > 0)
        => /\ Len(tableRows) >= 2
           /\ tableRows[Len(tableRows)].kind = "ocr-details"
           /\ tableRows[Len(tableRows)].text = rowResult.ocr_text
           /\ \A i \in 1..(Len(tableRows) - 1) :
                  tableRows[i].kind \in {"data", "not-found", "error"}

\* ------------------------------------------------------------------------
\* C15
\* ------------------------------------------------------------------------
\* the entries of monthNames whose name s contains, letter case ignored
NamedEntries(s) ==
    {k \in 1..Len(monthNames) : ContainsIgnoringCase(s, monthNames[k][1])}

\* C15: when a filename matches neither numeric heuristic and contains
\* several English month names or abbreviations, the function returns the
\* month of the name that comes first in the table (jan, january, feb, ...),
\* wherever the names stand in the filename.
C15_FirstTableEntry ==
    (/\ Done
     /\ KanjiDigitEnds(filename) = {}
     /\ DelimitedStarts(filename) = {}
     /\ Cardinality(MonthsNamed(filename)) > 1)
        => \E k \in NamedEntries(filename) :
               /\ \A j \in NamedEntries(filename) : k <= j
               /\ detectedMonth = monthNames[k][2]

\* "DECJan": dec stands first in the filename, jan first in the table
C15_Witness ==
    /\ Done
    /\ filename = <<68, 69, 67, 74, 97, 110>>
    /\ detectedMonth = 1

\* ------------------------------------------------------------------------
\* C16
\* ------------------------------------------------------------------------
\* C16: the visible results table holds only rows of the response to the
\* most recently started submission: whenever its rows change they are
\* emptied, or an empty table receives the rows of the response to the
\* submission started last; the response to an earlier submission never
\* changes them, however submissions, responses and resets interleave.
C16_RowsOfLatestSubmission ==
    [][resultArea'.rows # resultArea.rows
          => \/ resultArea'.rows = <<>>
             \/ /\ resultArea.rows = <<>>
                /\ resultArea.tbody = submits
                /\ \E body \in ResponseBodies : ResponseOk(submits, body)]_vars

\* the response to the second submission is shown while the first
\* submission is still awaiting its response
C16_Witness ==
    /\ submits = 2
    /\ pending = {1}
    /\ resultArea.tbody = 2
    /\ resultArea.rows # <<>>

\* ------------------------------------------------------------------------
\* C17
\* ------------------------------------------------------------------------
\* C17: the month_mappings of a submission has one entry per element of
\* uploadedFiles, in list order, which is the order of the files of the
\* request, and each entry holds the name and the selectedMonth its file has
\* at the submission (which leaves uploadedFiles as it is).
C17_MappingsFollowList ==
    \A k \in 1..Len(fetched) :
        /\ Len(fetched[k].month_mappings) = Len(uploadedFiles)
        /\ Len(fetched[k].files) = Len(uploadedFiles)
        /\ \A i \in 1..Len(uploadedFiles) :
               /\ fetched[k].files[i] = uploadedFiles[i].file
               /\ fetched[k].month_mappings[i].filename = uploadedFiles[i].file
               /\ fetched[k].month_mappings[i].selectedMonth
                      = uploadedFiles[i].selectedMonth

\* a second submission, of "12月" with month 12 picked in place of the
\* detected 11 and of "a"
C17_Witness ==
    /\ Len(fetched) = 1
    /\ submits = 2
    /\ Len(uploadedFiles) = 2
    /\ uploadedFiles[1].file = <<49, 50, TSUKI>>
    /\ uploadedFiles[1].detectedMonth = 11
    /\ uploadedFiles[1].selectedMonth = 12
    /\ uploadedFiles[2].file = <<97>>

\* ------------------------------------------------------------------------
\* C18
\* ------------------------------------------------------------------------
\* C18: handleReset leaves the file list empty, the client name, the address
\* and the registration number empty, the result area with its empty
\* placeholder, the Execute button visible and disabled, the Reset button,
\* the download area and the progress area hidden, and currentMode as it
\* was, whatever the state it is invoked in.
C18_ResetRestoresAllButMode ==
    [][handleReset
          => /\ uploadedFiles' = <<>>
             /\ corpName' = <<>>
             /\ address' = <<>>
             /\ corpNumber' = <<>>
             /\ resultArea' = [tbody |-> 0, rows |-> <<>>]
             /\ executeBtn' = [disabled |-> TRUE, display |-> "inline-flex"]
             /\ resetBtn' = "none"
             /\ downloadArea' = "none"
             /\ progressArea' = "none"
             /\ currentMode' = currentMode]_vars

\* the page after a reset in multi mode, made while a request was pending:
\* only handleReset brings the placeholder back once a submission was made
C18_Witness ==
    /\ submits = 2
    /\ pending # {}
    /\ resultArea.tbody = 0
    /\ currentMode = "multi"
    /\ uploadedFiles = <<>>
    /\ corpName = <<>>
    /\ address = <<>>
    /\ corpNumber = <<>>
    /\ resetBtn = "none"

\* ------------------------------------------------------------------------
\* C19
\* ------------------------------------------------------------------------
\* the rows that show a month: all but the OCR blocks
MonthRows(rows) ==
    SelectSeq(rows, LAMBDA row : row.kind \in {"data", "not-found", "error"})

\* an item of status '完了' or 'kWh未検出' without a month value
NoMonthFields(item) ==
    /\ item.status \in {"kanryo", "kWh-mikenshutsu"}
    /\ \A i \in 1..Len(item.fields) : item.fields[i][1] = OcrConfidenceKey

\* C19: the row of a response item without extracted month values shows the
\* selectedMonth of the uploaded file the item was produced from, the i-th
\* file for the i-th item, also when two uploaded files have the same name
\* and different selected months.
C19_MonthOfSourceFile ==
    [][\A body \in PerFileBodies(uploadedFiles) :
          ResponseOk(1, body)
              => /\ Len(MonthRows(resultArea'.rows)) = Len(uploadedFiles)
                 /\ \A i \in 1..Len(uploadedFiles) :
                        NoMonthFields(body.results[i])
                            => MonthRows(resultArea'.rows)[i].month
                                   = NumberToString(uploadedFiles[i].selectedMonth)
                                         \o <<TSUKI>>]_vars

====
